---- MODULE Spec2Model ----
(***************************************************************************)
(* velero-ui: a Bubble Tea wizard that collects an operation, a backup, a  *)
(* context, namespaces, resources and a name, dispatches a velero command  *)
(* and polls `velero ... describe` until the operation is over.            *)
(*                                                                         *)
(* The repository holds three revisions of the program:                    *)
(*   "main"    src/main.go                                                 *)
(*   "logfile" src/unnamed/part_000, lines 1-464   (logs to program.log)   *)
(*   "debug"   src/unnamed/part_000, lines 465-947 (-debug flag, handlers  *)
(*             split into methods, JSON backup listing)                    *)
(* The variable impl says which revision a behaviour runs.                 *)
(*                                                                         *)
(* Strings are sequences of tokens.  A token is one character of a value   *)
(* that comes from outside ("a", " ", "\n") or one literal chunk of the    *)
(* program text ("velero backup create ").  Concatenation is \o.           *)
(***************************************************************************)
EXTENDS Integers, Sequences, FiniteSets, TLC

\* ------------------------------------------------------------------ bounds
\* status queries one run of waitForCompletion may issue in the model
MaxPolls == 3
\* key messages the event loop handles after Update returned tea.Quit and
\* before the QuitMsg arrives
MaxLate == 1
\* characters typed into the name input
MaxNameLen == 1
\* items of the namespace list that SpecToggle starts with
MaxItems == 3
\* lines of the command output that SpecAdapters hands to an adapter
MaxLines == 3

\* ----------------------------------------------------------------- strings
Impls == {"main", "logfile", "debug"}

Min(a, b) == IF a < b THEN a ELSE b
Max(a, b) == IF a > b THEN a ELSE b

\* error(nil)
Nil == <<>>

\* the *exec.ExitError a failed `sh -c` gives
ExitError == <<"exit status 1">>

IsSpace(c) == c \in {" ", "\n", "\t"}

RECURSIVE TrimLeft(_)
TrimLeft(s) ==
    IF s # <<>> /\ IsSpace(Head(s)) THEN TrimLeft(Tail(s)) ELSE s

RECURSIVE TrimRight(_)
TrimRight(s) ==
    IF s # <<>> /\ IsSpace(s[Len(s)]) THEN TrimRight(SubSeq(s, 1, Len(s) - 1)) ELSE s

\* strings.TrimSpace
TrimSpace(s) == TrimRight(TrimLeft(s))

\* strings.Split(s, "\n"): never empty, Split("") is one empty string
RECURSIVE SplitLines(_)
SplitLines(s) ==
    IF \E i \in DOMAIN s : s[i] = "\n"
    THEN LET i == CHOOSE k \in DOMAIN s :
                     s[k] = "\n" /\ \A j \in 1..(k - 1) : s[j] # "\n"
         IN <<SubSeq(s, 1, i - 1)>> \o SplitLines(SubSeq(s, i + 1, Len(s)))
    ELSE <<s>>

\* strings.Join(strs, sep)
RECURSIVE Join(_, _)
Join(strs, sep) ==
    IF strs = <<>> THEN <<>>
    ELSE IF Len(strs) = 1 THEN strs[1]
    ELSE strs[1] \o <<sep>> \o Join(Tail(strs), sep)

\* strings.Contains(output, marker), marker one literal chunk
Contains(output, marker) == \E i \in DOMAIN output : output[i] = marker

LowerToken(c) ==
    CASE c = "Backup" -> "backup"
      [] c = "Restore" -> "restore"
      [] OTHER -> c

\* strings.ToLower
ToLower(s) == [i \in DOMAIN s |-> LowerToken(s[i])]

\* ------------------------------------------------------------------- items
\* the item struct and its zero value
Item(t, d) == [title |-> t, description |-> d]
NoItem == Item(<<>>, <<>>)

Titles(items) == [i \in DOMAIN items |-> items[i].title]

\* a list.Model: its items and the index of its cursor
List(items) == [items |-> items, index |-> 0]

\* list.Model.SelectedItem is nil unless the cursor is on an item
HasSelected(l) == l.index >= 0 /\ l.index < Len(l.items)

\* list.Model.SelectedItem, when it is not nil
SelectedItem(l) == l.items[l.index + 1]

\* list.Model.SetItems
SetItems(l, items) == [l EXCEPT !.items = items]

\* list.Model.Update on a cursor key: the cursor stays inside the items
CursorMove(l, d) ==
    [l EXCEPT !.index = Max(0, Min(l.index + d, Len(l.items) - 1))]

\* ---------------------------------------------------------------- commands
\* what runShellCommand returns: (output, err)
ShellResult(output, e) == [output |-> output, err |-> e]

ContextsCmd == <<"kubectl config get-contexts -o name">>
NamespacesCmd ==
    <<"kubectl get namespaces -o custom-columns=NAME:.metadata.name --no-headers">>
BackupsLineCmd ==
    <<"velero backup get -o custom-columns=NAME:.metadata.name --no-headers">>
BackupsJsonCmd == <<"velero backup get -o json">>

\* ResourcesCmd with the namespaces joined by commas
ResourcesCmdCommas(ns) ==
    <<"kubectl get all -n ">> \o Join(Titles(ns), ",") \o <<" --no-headers">>

\* fmt.Sprintf("kubectl get all -n %s --no-headers", strings.Join(namespaceStrs, " "))
ResourcesCmd(ns) ==
    <<"kubectl get all -n ">> \o Join(Titles(ns), " ") \o <<" --no-headers">>

\* fmt.Sprintf("velero backup create %s --include-namespaces %s", ...) of main.go
BackupCmdMain(name, ns) ==
    <<"velero backup create ">> \o name
        \o <<" --include-namespaces ">> \o Join(Titles(ns), ",")

\* fmt.Sprintf("velero backup create %s --include-namespaces %s --kubecontext %s", ...)
BackupCmdCtx(name, ns, ctx) ==
    <<"velero backup create ">> \o name
        \o <<" --include-namespaces ">> \o Join(Titles(ns), ",")
        \o <<" --kubecontext ">> \o ctx.title

\* fmt.Sprintf("velero restore create --from-backup %s", m.selectedBackup.Title())
RestoreCmd(backup) == <<"velero restore create --from-backup ">> \o backup.title

\* fmt.Sprintf("velero %s describe %s --details -o json", operation, name)
StatusCmd(operation, name) ==
    <<"velero ">> \o operation \o <<" describe ">> \o name \o <<" --details -o json">>

\* ---------------------------------------------------------------- adapters
\* fetchItems splitting the output as it came
fetchItemsUntrimmed(r) ==
    IF r.err # Nil
    THEN [items |-> <<>>, err |-> r.err]
    ELSE LET lines == SplitLines(r.output)
         IN [items |-> [i \in DOMAIN lines |-> Item(lines[i], <<>>)], err |-> Nil]

\* fetchItems, after runShellCommand returned r: (items, err)
fetchItems(r) ==
    IF r.err # Nil
    THEN [items |-> <<>>, err |-> r.err]
    ELSE LET lines == SplitLines(TrimSpace(r.output))
         IN [items |-> [i \in DOMAIN lines |-> Item(lines[i], <<>>)], err |-> Nil]

\* json.Unmarshal into []struct{Metadata struct{Name string}}: the text is
\* "null", or "[" objects separated by "," "]", an object being "{" name "}"
JsonError == <<"json: cannot unmarshal">>

RECURSIVE JsonObjects(_, _)
JsonObjects(s, first) ==
    IF s = <<>> THEN [ok |-> TRUE, names |-> <<>>]
    ELSE IF ~first /\ Head(s) # "," THEN [ok |-> FALSE, names |-> <<>>]
    ELSE LET t == IF first THEN s ELSE Tail(s)
         IN IF t = <<>> \/ Head(t) # "{" \/ ~\E i \in DOMAIN t : t[i] = "}"
            THEN [ok |-> FALSE, names |-> <<>>]
            ELSE LET c == CHOOSE k \in DOMAIN t :
                              t[k] = "}" /\ \A j \in 1..(k - 1) : t[j] # "}"
                     rest == JsonObjects(SubSeq(t, c + 1, Len(t)), FALSE)
                 IN [ok |-> rest.ok, names |-> <<SubSeq(t, 2, c - 1)>> \o rest.names]

JsonUnmarshal(s) ==
    IF s = <<"null">> THEN [ok |-> TRUE, names |-> <<>>]
    ELSE IF Len(s) < 2 \/ Head(s) # "[" \/ s[Len(s)] # "]"
    THEN [ok |-> FALSE, names |-> <<>>]
    ELSE JsonObjects(SubSeq(s, 2, Len(s) - 1), TRUE)

\* fetchBackups of the debug revision, after runShellCommand returned r
fetchBackups(r) ==
    IF r.err # Nil
    THEN [items |-> <<>>, err |-> r.err]
    ELSE LET d == JsonUnmarshal(r.output)
         IN IF ~d.ok
            THEN [items |-> <<>>, err |-> JsonError]
            ELSE [items |-> [i \in DOMAIN d.names |-> Item(d.names[i], <<>>)],
                  err |-> Nil]

\* ^(pod|service|deployment\.apps|replicaset\.apps)/([^ ]+)
ResourcePrefixes == {"pod", "service", "deployment.apps", "replicaset.apps"}

\* re.FindStringSubmatch(line)[0], or Nil when the line does not match
ResourceMatch(line) ==
    IF Len(line) >= 3 /\ line[1] \in ResourcePrefixes /\ line[2] = "/" /\ line[3] # " "
    THEN LET stop == {k \in 3..Len(line) : line[k] = " "}
             last == IF stop = {} THEN Len(line)
                     ELSE (CHOOSE k \in stop : \A j \in stop : k <= j) - 1
         IN SubSeq(line, 1, last)
    ELSE Nil

RECURSIVE parseLines(_, _, _)
parseLines(lines, items, seen) ==
    IF lines = <<>> THEN items
    ELSE LET resource == ResourceMatch(Head(lines))
         IN IF resource # Nil /\ resource \notin seen
            THEN parseLines(Tail(lines), Append(items, Item(resource, <<>>)),
                            seen \cup {resource})
            ELSE parseLines(Tail(lines), items, seen)

\* parseResources without the seen map
parseResourcesUnseen(output) ==
    LET lines == SplitLines(output)
        hits == SelectSeq([i \in DOMAIN lines |-> ResourceMatch(lines[i])],
                          LAMBDA x : x # Nil)
    IN [i \in DOMAIN hits |-> Item(hits[i], <<>>)]

\* parseResources of the logfile revision
parseResources(output) == parseLines(SplitLines(output), <<>>, {})

\* ------------------------------------------------------------------ poller
CompletedMarker == "\"Phase\": \"Completed\""
FailedMarker == "\"Phase\": \"Failed\""

\* fmt.Errorf("%s %s failed", operation, name)
FailedError(operation, name) == operation \o <<" ">> \o name \o <<" failed">>

\* one turn of the loop of waitForCompletion, after the status query returned r:
\* the loop returns result (done) or sleeps and queries again
Return(e) == [done |-> TRUE, result |-> e]
SleepAgain == [done |-> FALSE, result |-> Nil]

\* waitForCompletionMain looking for a marker no status ever holds
waitForCompletionWrongMarker(operation, name, r) ==
    IF r.err # Nil THEN Return(r.err)
    ELSE IF Contains(r.output, "\"Phase\": \"Complete\"") THEN Return(Nil)
    ELSE SleepAgain

waitForCompletionMain(operation, name, r) ==
    IF r.err # Nil THEN Return(r.err)
    ELSE IF Contains(r.output, CompletedMarker) THEN Return(Nil)
    ELSE SleepAgain

waitForCompletionLogfile(operation, name, r) ==
    IF r.err # Nil THEN Return(r.err)
    ELSE IF Contains(r.output, CompletedMarker) THEN Return(Nil)
    ELSE IF Contains(r.output, FailedMarker) THEN Return(FailedError(operation, name))
    ELSE SleepAgain

\* waitForCompletionDebug giving up on a status without a terminal marker
waitForCompletionGiveUp(operation, name, r) ==
    IF Contains(r.output, CompletedMarker) THEN Return(Nil)
    ELSE IF Contains(r.output, FailedMarker) THEN Return(FailedError(operation, name))
    ELSE Return(<<"timed out">>)

waitForCompletionDebug(operation, name, r) ==
    IF Contains(r.output, CompletedMarker) THEN Return(Nil)
    ELSE IF Contains(r.output, FailedMarker) THEN Return(FailedError(operation, name))
    ELSE SleepAgain

waitForCompletion(i, operation, name, r) ==
    CASE i = "main" -> waitForCompletionMain(operation, name, r)
      [] i = "logfile" -> waitForCompletionLogfile(operation, name, r)
      [] i = "debug" -> waitForCompletionDebug(operation, name, r)

\* ------------------------------------------------------------------- state
VARIABLES
    impl,     \* the revision that runs
    m,        \* the model struct that Update receives and returns
    prog,     \* the tea.Program: "running", "quit" (QuitMsg handled), "panic"
    quitCmd,  \* Update returned tea.Quit and its QuitMsg is not handled yet
    pc,       \* where the event loop is: "events" (between messages), or inside
              \* waitForCompletion at "query" or "sleep"
    wait,     \* the current (or last) call of waitForCompletion
    sh,       \* what runShellCommand has run so far
    late,     \* key messages handled since quitCmd
    ev,       \* the message handled last: its kind, the step it found, the
              \* commands its handler has run, and the error that its fetch of
              \* items or its dispatch command returned
    call      \* one call of an adapter on its own (SpecAdapters): the function,
              \* what runShellCommand returned to it, and what it returned;
              \* a session (Spec) makes no such call

vars == <<impl, m, prog, quitCmd, pc, wait, sh, late, ev, call>>

Steps == {"stepOperation", "stepContext", "stepNamespace", "stepBackupSelection",
          "stepResourceDecision", "stepResource", "stepBackupName", "stepExecute"}

NoResult == [output |-> <<>>, err |-> <<"none">>]

\* no call of waitForCompletion yet
\* calls: the calls so far; queries, sleeps: of this call; last: what the status
\* query of this turn of the loop returned; quiet: every earlier query of this
\* call succeeded with a status that has neither marker
NoWait ==
    [calls |-> 0, operation |-> <<>>, name |-> <<>>, queries |-> 0, sleeps |-> 0,
     quiet |-> TRUE, last |-> NoResult, returned |-> FALSE, result |-> Nil]

NoCall == [name |-> "none", arg |-> NoResult, done |-> FALSE, items |-> <<>>, err |-> Nil]

operations(i) ==
    IF i = "debug"
    THEN <<Item(<<"Backup">>, <<"Create a velero backup">>),
           Item(<<"Restore">>, <<"Restore a velero backup">>)>>
    ELSE <<Item(<<"Backup">>, <<"Backup the data">>),
           Item(<<"Restore">>, <<"Restore the data">>)>>

resourceDecisionItems ==
    <<Item(<<"Yes">>, <<"Select specific resources">>),
      Item(<<"No">>, <<"Restore the entire namespace">>)>>

\* initialModel with a name in m.backupName from the start
initialModelNamed(i) ==
    [step |-> "stepOperation",
     operationList |-> List(operations(i)),
     contextList |-> List(<<>>),
     namespaceList |-> List(<<>>),
     resourceList |-> List(<<>>),
     backupList |-> List(<<>>),
     resourceDecisionList |-> List(IF i = "debug" THEN <<>> ELSE resourceDecisionItems),
     backupNameInput |-> <<>>,
     selectedOp |-> NoItem,
     selectedCtx |-> NoItem,
     selectedNS |-> <<>>,
     selectedRes |-> <<>>,
     selectedBackup |-> NoItem,
     backupName |-> <<"x">>,
     err |-> Nil]

\* the debug revision has no resource steps: its resourceDecisionList,
\* resourceList and selectedRes are never read or written
initialModel(i) ==
    [step |-> "stepOperation",
     operationList |-> List(operations(i)),
     contextList |-> List(<<>>),
     namespaceList |-> List(<<>>),
     resourceList |-> List(<<>>),
     backupList |-> List(<<>>),
     resourceDecisionList |-> List(IF i = "debug" THEN <<>> ELSE resourceDecisionItems),
     backupNameInput |-> <<>>,
     selectedOp |-> NoItem,
     selectedCtx |-> NoItem,
     selectedNS |-> <<>>,
     selectedRes |-> <<>>,
     selectedBackup |-> NoItem,
     backupName |-> <<>>,
     err |-> Nil]

Init ==
    /\ impl \in Impls
    /\ m = initialModel(impl)
    /\ prog = "running"
    /\ quitCmd = FALSE
    /\ pc = "events"
    /\ wait = NoWait
    /\ sh = [last |-> <<>>, dispatches |-> 0, dispatch |-> <<>>]
    /\ late = 0
    /\ ev = [kind |-> "init", at |-> "stepOperation", ran |-> 0, err |-> Nil]
    /\ call = NoCall

\* ------------------------------------------------------- what the tools say
ContextOutputs == {<<>>, <<"p", "\n">>}
NamespaceOutputs == {<<>>, <<"a", "\n", "b", "\n">>, <<"a", "\n", "a", "\n">>}
BackupLineOutputs == {<<>>, <<"k", "\n">>}
BackupJsonOutputs ==
    {<<"[", "]">>, <<"[", "{", "k", "}", ",", "{", "l", "}", "]">>, <<"{", "k", "}">>}
ResourceOutputs == {<<>>, <<"pod", "/", "f", " ", "R", "\n">>}
StatusOutputs ==
    {<<>>, <<"\"Phase\": \"InProgress\"">>, <<CompletedMarker>>, <<FailedMarker>>,
     <<FailedMarker, CompletedMarker>>}

\* the command exits 0 with one of the outputs, or fails
Results(outputs) ==
    {ShellResult(o, Nil) : o \in outputs} \cup {ShellResult(<<>>, ExitError)}

\* a failed status query has printed no phase, or has printed one all the same
StatusResults ==
    Results(StatusOutputs) \cup {ShellResult(<<CompletedMarker>>, ExitError)}

Ran(cmd) == [sh EXCEPT !.last = cmd]
RanDispatch(cmd) == [last |-> cmd, dispatches |-> sh.dispatches + 1, dispatch |-> cmd]

\* Handling with messages taken while waitForCompletion runs
HandlingWhilePolling == prog = "running"

\* the event loop takes the next message
Handling == prog = "running" /\ pc = "events"

\* the next message is a key message
KeyMsg == Handling /\ (quitCmd => late < MaxLate)

\* Update has handled a key message, running n commands, the fetch or the
\* dispatch among them returning e
Handled(kind, n, e) ==
    /\ ev' = [kind |-> kind, at |-> m.step, ran |-> n, err |-> e]
    /\ late' = IF quitCmd THEN late + 1 ELSE late

\* m.selectedX = l.SelectedItem().(item) on a nil interface: the assertion panics
Panic ==
    /\ prog' = "panic"
    /\ Handled("enter", 0, Nil)
    /\ UNCHANGED <<call, impl, m, quitCmd, pc, wait, sh>>

\* Fetched dropping the error of the fetch
FetchedErrorDropped(m1, list, f, prefix) ==
    IF f.err # Nil THEN m1 ELSE [m1 EXCEPT ![list] = SetItems(@, f.items)]

\* after a fetch of the next step's items returned f: SetItems, or m.err and tea.Quit
Fetched(m1, list, f, prefix) ==
    IF f.err # Nil
    THEN [m1 EXCEPT !.err = prefix \o f.err]
    ELSE [m1 EXCEPT ![list] = SetItems(@, f.items)]

\* --------------------------------------------------------- toggleSelection
RemoveAt(selected, i) ==
    SubSeq(selected, 1, i - 1) \o SubSeq(selected, i + 1, Len(selected))

\* toggleSelection removing the oldest selected item instead of the match
toggleSelectionRemoveHead(l, selected) ==
    IF l.index < 0 \/ l.index >= Len(l.items) THEN selected
    ELSE LET item == l.items[l.index + 1]
         IN IF \E i \in DOMAIN selected : selected[i].title = item.title
            THEN Tail(selected)
            ELSE Append(selected, item)

\* toggleSelection removing the match by moving the last item into its place
toggleSelectionSwapRemove(l, selected) ==
    IF l.index < 0 \/ l.index >= Len(l.items) THEN selected
    ELSE LET item == l.items[l.index + 1]
             same == {i \in DOMAIN selected : selected[i].title = item.title}
         IN IF same # {}
            THEN LET i == CHOOSE k \in same : \A j \in same : k <= j
                     n == Len(selected)
                 IN SubSeq([selected EXCEPT ![i] = selected[n]], 1, n - 1)
            ELSE Append(selected, item)

\* toggleSelection without the search for the item
toggleSelectionAppend(l, selected) ==
    IF l.index < 0 \/ l.index >= Len(l.items) THEN selected
    ELSE Append(selected, l.items[l.index + 1])

\* toggleSelection selecting the zero item when the cursor is on no item
toggleSelectionZeroItem(l, selected) ==
    IF l.index < 0 \/ l.index >= Len(l.items) THEN Append(selected, NoItem)
    ELSE LET item == l.items[l.index + 1]
             same == {i \in DOMAIN selected : selected[i].title = item.title}
         IN IF same # {}
            THEN RemoveAt(selected, CHOOSE i \in same : \A j \in same : i <= j)
            ELSE Append(selected, item)

\* m.toggleSelection(&l, &selected): the new *selected
toggleSelection(l, selected) ==
    IF l.index < 0 \/ l.index >= Len(l.items) THEN selected
    ELSE LET item == l.items[l.index + 1]
             same == {i \in DOMAIN selected : selected[i].title = item.title}
         IN IF same # {}
            THEN RemoveAt(selected, CHOOSE i \in same : \A j \in same : i <= j)
            ELSE Append(selected, item)

\* ------------------------------------------------------------ the Execute step
\* DispatchCmd with the selected resources added to the command
DispatchCmdWithResources(i, m1) ==
    (IF m1.selectedOp.title = <<"Backup">>
     THEN IF i = "main"
          THEN BackupCmdMain(m1.backupName, m1.selectedNS)
          ELSE BackupCmdCtx(m1.backupName, m1.selectedNS, m1.selectedCtx)
     ELSE RestoreCmd(m1.selectedBackup))
    \o (IF m1.selectedRes = <<>> THEN <<>>
        ELSE <<" --include-resources ">> \o Join(Titles(m1.selectedRes), ","))

\* the dispatch command of the Execute step
DispatchCmd(i, m1) ==
    IF m1.selectedOp.title = <<"Backup">>
    THEN IF i = "main"
         THEN BackupCmdMain(m1.backupName, m1.selectedNS)
         ELSE BackupCmdCtx(m1.backupName, m1.selectedNS, m1.selectedCtx)
    ELSE RestoreCmd(m1.selectedBackup)

\* the first argument of the call of waitForCompletion
WaitOperation(i, m1) ==
    IF i = "debug" THEN ToLower(m1.selectedOp.title)
    ELSE IF m1.selectedOp.title = <<"Backup">> THEN <<"backup">> ELSE <<"restore">>

\* the second argument of the call of waitForCompletion
WaitName(i, m1) ==
    IF i = "debug" THEN m1.backupName
    ELSE IF m1.selectedOp.title = <<"Backup">> THEN m1.backupName
    ELSE m1.selectedBackup.title

\* fmt.Errorf("error starting backup: %w", err) and its siblings
DispatchError(i, m1, e) ==
    (IF i = "debug" THEN <<"error executing command: ">>
     ELSE IF m1.selectedOp.title = <<"Backup">> THEN <<"error starting backup: ">>
     ELSE <<"error starting restore: ">>) \o e

\* fmt.Errorf("error waiting for backup completion: %w", err) and its siblings
WaitError(i, m1, e) ==
    (IF i = "debug" THEN <<"error waiting for completion: ">>
     ELSE IF m1.selectedOp.title = <<"Backup">>
     THEN <<"error waiting for backup completion: ">>
     ELSE <<"error waiting for restore completion: ">>) \o e

\* executeOperation without the return after a failed dispatch
executeOperationNoReturn(m1) ==
    \E r \in Results({<<>>}) :
      /\ Handled("enter", 1, r.err)
      /\ sh' = RanDispatch(DispatchCmd(impl, m1))
      /\ m' = IF r.err # Nil
              THEN [m1 EXCEPT !.err = DispatchError(impl, m1, r.err)]
              ELSE m1
      /\ quitCmd' = quitCmd
      /\ pc' = "query"
      /\ wait' = [NoWait EXCEPT !.calls = wait.calls + 1,
                                !.operation = WaitOperation(impl, m1),
                                !.name = WaitName(impl, m1)]

\* case stepExecute of Update, executeOperation of the debug revision, up to the
\* call of waitForCompletion: run the dispatch command; on error set m.err and
\* return tea.Quit, else enter the poller's loop
executeOperation(m1) ==
    /\ \E r \in Results({<<>>}) :
         /\ Handled("enter", 1, r.err)
         /\ sh' = RanDispatch(DispatchCmd(impl, m1))
         /\ IF r.err # Nil
            THEN /\ m' = [m1 EXCEPT !.err = DispatchError(impl, m1, r.err)]
                 /\ quitCmd' = TRUE
                 /\ pc' = "events"
                 /\ wait' = wait
            ELSE /\ m' = m1
                 /\ quitCmd' = quitCmd
                 /\ pc' = "query"
                 /\ wait' = [NoWait EXCEPT !.calls = wait.calls + 1,
                                           !.operation = WaitOperation(impl, m1),
                                           !.name = WaitName(impl, m1)]

\* the status query succeeded with a status that has neither marker
NonTerminal(r) ==
    /\ r.err = Nil
    /\ ~Contains(r.output, CompletedMarker)
    /\ ~Contains(r.output, FailedMarker)

\* one turn of the loop of waitForCompletion: the status query and what follows
\* it. When the loop returns, Update sets m.err on an error and returns tea.Quit.
PollQuery ==
    /\ prog = "running"
    /\ pc = "query"
    /\ wait.queries < MaxPolls
    /\ \E r \in StatusResults :
         LET d == waitForCompletion(impl, wait.operation, wait.name, r)
         IN /\ sh' = Ran(StatusCmd(wait.operation, wait.name))
            /\ wait' = [wait EXCEPT !.queries = @ + 1,
                                    !.last = r,
                                    !.returned = d.done,
                                    !.result = d.result]
            /\ IF d.done
               THEN /\ pc' = "events"
                    /\ quitCmd' = TRUE
                    /\ m' = IF d.result # Nil
                            THEN [m EXCEPT !.err = WaitError(impl, m, d.result)]
                            ELSE m
               ELSE /\ pc' = "sleep"
                    /\ UNCHANGED <<quitCmd, m>>
    /\ ev' = [ev EXCEPT !.ran = @ + 1]
    /\ UNCHANGED <<call, impl, prog, late>>

\* time.Sleep(5 * time.Second), then the loop queries again
PollSleep ==
    /\ prog = "running"
    /\ pc = "sleep"
    /\ pc' = "query"
    /\ wait' = [wait EXCEPT !.sleeps = @ + 1,
                            !.quiet = @ /\ NonTerminal(wait.last),
                            !.last = NoResult]
    /\ UNCHANGED <<call, impl, m, prog, quitCmd, sh, late, ev>>

\* ------------------------------------------------------------ the enter key
\* case stepOperation, handleOperationEnter
EnterOperation ==
    /\ KeyMsg
    /\ m.step = "stepOperation"
    /\ IF ~HasSelected(m.operationList) THEN Panic
       ELSE LET op == SelectedItem(m.operationList)
                m1 == [m EXCEPT !.selectedOp = op]
            IN /\ IF op.title = <<"Backup">>
                  THEN \E r \in Results(ContextOutputs) :
                         LET f == fetchItems(r)
                         IN /\ Handled("enter", 1, f.err)
                            /\ m' = Fetched([m1 EXCEPT !.step = "stepContext"],
                                            "contextList", f,
                                            <<"error fetching contexts: ">>)
                            /\ quitCmd' = (quitCmd \/ f.err # Nil)
                            /\ sh' = Ran(ContextsCmd)
                  ELSE IF impl = "debug"
                  THEN \E r \in Results(BackupJsonOutputs) :
                         LET f == fetchBackups(r)
                         IN /\ Handled("enter", 1, f.err)
                            /\ m' = Fetched([m1 EXCEPT !.step = "stepBackupSelection"],
                                            "backupList", f,
                                            <<"error fetching backups: ">>)
                            /\ quitCmd' = (quitCmd \/ f.err # Nil)
                            /\ sh' = Ran(BackupsJsonCmd)
                  ELSE \E r \in Results(BackupLineOutputs) :
                         LET f == fetchItems(r)
                         IN /\ Handled("enter", 1, f.err)
                            /\ m' = Fetched([m1 EXCEPT !.step = "stepBackupSelection"],
                                            "backupList", f,
                                            <<"error fetching backups: ">>)
                            /\ quitCmd' = (quitCmd \/ f.err # Nil)
                            /\ sh' = Ran(BackupsLineCmd)
               /\ UNCHANGED <<call, impl, prog, pc, wait>>

\* case stepBackupSelection, handleBackupSelectionEnter
EnterBackupSelection ==
    /\ KeyMsg
    /\ m.step = "stepBackupSelection"
    /\ IF ~HasSelected(m.backupList) THEN Panic
       ELSE /\ \E r \in Results(ContextOutputs) :
                 LET f == fetchItems(r)
                     m1 == [m EXCEPT !.selectedBackup = SelectedItem(m.backupList),
                                     !.step = "stepContext"]
                 IN /\ Handled("enter", 1, f.err)
                    /\ m' = Fetched(m1, "contextList", f, <<"error fetching contexts: ">>)
                    /\ quitCmd' = (quitCmd \/ f.err # Nil)
                    /\ sh' = Ran(ContextsCmd)
            /\ UNCHANGED <<call, impl, prog, pc, wait>>

\* case stepContext, handleContextEnter
EnterContext ==
    /\ KeyMsg
    /\ m.step = "stepContext"
    /\ IF ~HasSelected(m.contextList) THEN Panic
       ELSE /\ \E r \in Results(NamespaceOutputs) :
                 LET f == fetchItems(r)
                     m1 == [m EXCEPT !.selectedCtx = SelectedItem(m.contextList),
                                     !.step = "stepNamespace"]
                 IN /\ Handled("enter", 1, f.err)
                    /\ m' = Fetched(m1, "namespaceList", f,
                                    <<"error fetching namespaces: ">>)
                    /\ quitCmd' = (quitCmd \/ f.err # Nil)
                    /\ sh' = Ran(NamespacesCmd)
            /\ UNCHANGED <<call, impl, prog, pc, wait>>

\* EnterNamespace without the check of len(m.selectedNS)
EnterNamespaceUnchecked ==
    /\ KeyMsg
    /\ m.step = "stepNamespace"
    /\ Handled("enter", 0, Nil)
    /\ m' = [m EXCEPT !.step = IF impl = "debug" THEN "stepBackupName"
                               ELSE "stepResourceDecision"]
    /\ UNCHANGED <<call, impl, prog, quitCmd, pc, wait, sh>>

\* case stepNamespace, handleNamespaceEnter
EnterNamespace ==
    /\ KeyMsg
    /\ m.step = "stepNamespace"
    /\ Handled("enter", 0, Nil)
    /\ m' = IF Len(m.selectedNS) > 0
            THEN [m EXCEPT !.step = IF impl = "debug" THEN "stepBackupName"
                                    ELSE "stepResourceDecision"]
            ELSE [m EXCEPT !.err = <<"no namespace selected">>]
    /\ UNCHANGED <<call, impl, prog, quitCmd, pc, wait, sh>>

\* case stepResourceDecision (the main and logfile revisions)
EnterResourceDecision ==
    /\ KeyMsg
    /\ m.step = "stepResourceDecision"
    /\ IF ~HasSelected(m.resourceDecisionList) THEN Panic
       ELSE /\ IF SelectedItem(m.resourceDecisionList).title = <<"Yes">>
               THEN \E r \in Results(ResourceOutputs) :
                      LET f == IF impl = "main" THEN fetchItems(r)
                               ELSE [items |-> parseResources(r.output), err |-> r.err]
                      IN /\ Handled("enter", 1, f.err)
                         /\ m' = Fetched([m EXCEPT !.step = "stepResource"],
                                         "resourceList", f,
                                         <<"error fetching resources: ">>)
                         /\ quitCmd' = (quitCmd \/ f.err # Nil)
                         /\ sh' = Ran(ResourcesCmd(m.selectedNS))
               ELSE /\ Handled("enter", 0, Nil)
                    /\ m' = [m EXCEPT !.step = "stepBackupName"]
                    /\ UNCHANGED <<quitCmd, sh>>
            /\ UNCHANGED <<call, impl, prog, pc, wait>>

\* EnterResource going back to the namespaces
EnterResourceBack ==
    /\ KeyMsg
    /\ m.step = "stepResource"
    /\ Handled("enter", 0, Nil)
    /\ m' = IF Len(m.selectedRes) > 0
            THEN [m EXCEPT !.step = "stepNamespace"]
            ELSE [m EXCEPT !.err = <<"no resource selected">>]
    /\ UNCHANGED <<call, impl, prog, quitCmd, pc, wait, sh>>

\* case stepResource (the main and logfile revisions)
EnterResource ==
    /\ KeyMsg
    /\ m.step = "stepResource"
    /\ Handled("enter", 0, Nil)
    /\ m' = IF Len(m.selectedRes) > 0
            THEN [m EXCEPT !.step = "stepBackupName"]
            ELSE [m EXCEPT !.err = <<"no resource selected">>]
    /\ UNCHANGED <<call, impl, prog, quitCmd, pc, wait, sh>>

\* case stepBackupName: main and logfile return tea.Quit; handleBackupNameEnter
\* of the debug revision goes on to executeOperation
EnterBackupName ==
    /\ KeyMsg
    /\ m.step = "stepBackupName"
    /\ LET m1 == [m EXCEPT !.backupName = m.backupNameInput, !.step = "stepExecute"]
       IN IF impl = "debug"
          THEN executeOperation(m1)
          ELSE /\ Handled("enter", 0, Nil)
               /\ m' = m1
               /\ quitCmd' = TRUE
               /\ UNCHANGED <<pc, wait, sh>>
    /\ UNCHANGED <<call, impl, prog>>

\* case stepExecute, handleExecuteEnter
EnterExecute ==
    /\ KeyMsg
    /\ m.step = "stepExecute"
    /\ executeOperation(m)
    /\ UNCHANGED <<call, impl, prog>>

\* ------------------------------------------------------------- the other keys
ListSteps == {"stepOperation", "stepBackupSelection", "stepContext", "stepNamespace",
              "stepResourceDecision", "stepResource"}

\* QuitKey with the quit keys left to the name input in stepBackupName
QuitKeyNotInName ==
    /\ KeyMsg
    /\ m.step # "stepBackupName"
    /\ quitCmd' = TRUE
    /\ Handled("quitkey", 0, Nil)
    /\ UNCHANGED <<call, impl, m, prog, pc, wait, sh>>

\* case "ctrl+c", "q" of main and logfile; case "ctrl+c" of debug, where "q"
\* reaches the active list's Update, whose key map binds it to tea.Quit
QuitKey ==
    /\ KeyMsg
    /\ \E key \in {"ctrl+c", "q"} :
         \/ key = "ctrl+c"
         \/ impl # "debug"
         \/ m.step \in ListSteps
    /\ quitCmd' = TRUE
    /\ Handled("quitkey", 0, Nil)
    /\ UNCHANGED <<call, impl, m, prog, pc, wait, sh>>

\* the list of the step, as the switch at the end of Update picks it
ActiveList(st) ==
    CASE st = "stepOperation" -> "operationList"
      [] st = "stepBackupSelection" -> "backupList"
      [] st = "stepContext" -> "contextList"
      [] st = "stepNamespace" -> "namespaceList"
      [] st = "stepResourceDecision" -> "resourceDecisionList"
      [] st = "stepResource" -> "resourceList"

\* SpaceKey toggling the namespace under the cursor in whatever step
SpaceKeyAnyStep ==
    /\ KeyMsg
    /\ m' = [m EXCEPT !.selectedNS = toggleSelection(m.namespaceList, @)]
    /\ Handled("space", 0, Nil)
    /\ UNCHANGED <<call, impl, prog, quitCmd, pc, wait, sh>>

\* case " ": toggleSelection in the two multi-select steps. In main and logfile
\* the key then reaches the step's component (the name input takes the space);
\* handleSpace of the debug revision returns at once
SpaceKey ==
    /\ KeyMsg
    /\ m.step = "stepBackupName" => impl = "debug" \/ Len(m.backupNameInput) < MaxNameLen
    /\ m' = CASE m.step = "stepNamespace" ->
                   [m EXCEPT !.selectedNS = toggleSelection(m.namespaceList, @)]
              [] m.step = "stepResource" /\ impl # "debug" ->
                   [m EXCEPT !.selectedRes = toggleSelection(m.resourceList, @)]
              [] m.step = "stepBackupName" /\ impl # "debug" ->
                   [m EXCEPT !.backupNameInput = Append(@, " ")]
              [] OTHER -> m
    /\ Handled("space", 0, Nil)
    /\ UNCHANGED <<call, impl, prog, quitCmd, pc, wait, sh>>

\* a cursor key reaches the active list's Update
CursorKey ==
    /\ KeyMsg
    /\ m.step \in ListSteps
    /\ \E d \in {-1, 1} :
         m' = [m EXCEPT ![ActiveList(m.step)] = CursorMove(@, d)]
    /\ Handled("cursor", 0, Nil)
    /\ UNCHANGED <<call, impl, prog, quitCmd, pc, wait, sh>>

\* a printable key in stepBackupName reaches backupNameInput.Update; "q" does
\* so only in the debug revision
NameChars == {"x", "q"}

TypeKey ==
    /\ KeyMsg
    /\ m.step = "stepBackupName"
    /\ Len(m.backupNameInput) < MaxNameLen
    /\ \E c \in NameChars :
         /\ c = "q" => impl = "debug"
         /\ m' = [m EXCEPT !.backupNameInput = Append(@, c)]
    /\ Handled("type", 0, Nil)
    /\ UNCHANGED <<call, impl, prog, quitCmd, pc, wait, sh>>

\* the QuitMsg of a returned tea.Quit reaches the event loop: Run returns
DeliverQuit ==
    /\ Handling
    /\ quitCmd
    /\ prog' = "quit"
    /\ ev' = [kind |-> "quitmsg", at |-> m.step, ran |-> 0, err |-> Nil]
    /\ UNCHANGED <<call, impl, m, quitCmd, pc, wait, sh, late>>

Next ==
    \/ EnterOperation
    \/ EnterBackupSelection
    \/ EnterContext
    \/ EnterNamespace
    \/ EnterResourceDecision
    \/ EnterResource
    \/ EnterBackupName
    \/ EnterExecute
    \/ QuitKey
    \/ SpaceKey
    \/ CursorKey
    \/ TypeKey
    \/ PollQuery
    \/ PollSleep
    \/ DeliverQuit

Spec == Init /\ [][Next]_vars

\* --------------------------------------------- the namespace step on its own
\* the titles and the item lists that SpecToggle draws from; a fetched list has
\* one item at least, and titles may repeat
ToggleTitles == {"a", "b", "c"}

ToggleLists ==
    UNION {[1..n -> {Item(<<t>>, <<>>) : t \in ToggleTitles}] : n \in 1..MaxItems}

\* the session right after the confirm of the context fetched the namespaces:
\* stepNamespace, nothing selected yet
InitToggle ==
    /\ impl \in Impls
    /\ \E items \in ToggleLists :
         m = [initialModel(impl) EXCEPT
                  !.step = "stepNamespace",
                  !.selectedOp = operations(impl)[1],
                  !.contextList = List(<<Item(<<"p">>, <<>>)>>),
                  !.selectedCtx = Item(<<"p">>, <<>>),
                  !.namespaceList = List(items)]
    /\ prog = "running"
    /\ quitCmd = FALSE
    /\ pc = "events"
    /\ wait = NoWait
    /\ sh = [last |-> NamespacesCmd, dispatches |-> 0, dispatch |-> <<>>]
    /\ late = 0
    /\ ev = [kind |-> "enter", at |-> "stepContext", ran |-> 1, err |-> Nil]
    /\ call = NoCall

\* the operator moves the cursor and presses space
NextToggle ==
    \/ SpaceKey
    \/ CursorKey

SpecToggle == InitToggle /\ [][NextToggle]_vars

\* ------------------------------------------------------ an adapter on its own
\* lines a listing command may print: names, a name after or before a space,
\* resource rows, a resource type without a name, a row that starts with a space
AdapterLines ==
    {<<"a">>, <<" ", "a">>, <<"a", " ">>,
     <<"pod", "/", "f", " ", "R">>, <<"service", "/", "b", " ", "C">>,
     <<"pod", "/">>, <<" ", "pod", "/", "f">>}

\* each line followed by its newline
RECURSIVE Unlines(_)
Unlines(lines) ==
    IF lines = <<>> THEN <<>>
    ELSE Head(lines) \o <<"\n">> \o Unlines(Tail(lines))

AdapterOutputs ==
    {Unlines(lines) : lines \in UNION {[1..n -> AdapterLines] : n \in 0..MaxLines}}

\* the command exits 0, or fails after it printed what it printed
AdapterResults ==
    {ShellResult(o, e) : o \in AdapterOutputs, e \in {Nil, ExitError}}

\* one call of fetchItems (every revision) or parseResources (logfile) is about
\* to convert what runShellCommand returned
InitAdapters ==
    /\ impl \in Impls
    /\ m = initialModel(impl)
    /\ prog = "running"
    /\ quitCmd = FALSE
    /\ pc = "events"
    /\ wait = NoWait
    /\ sh = [last |-> <<>>, dispatches |-> 0, dispatch |-> <<>>]
    /\ late = 0
    /\ ev = [kind |-> "init", at |-> "stepOperation", ran |-> 0, err |-> Nil]
    /\ \E name \in {"fetchItems", "parseResources"}, r \in AdapterResults :
         /\ name = "parseResources" => impl = "logfile" /\ r.err = Nil
         /\ call = [NoCall EXCEPT !.name = name, !.arg = r]

CallFetchItems ==
    /\ call.name = "fetchItems"
    /\ ~call.done
    /\ LET f == fetchItems(call.arg)
       IN call' = [call EXCEPT !.done = TRUE, !.items = f.items, !.err = f.err]
    /\ UNCHANGED <<impl, m, prog, quitCmd, pc, wait, sh, late, ev>>

CallParseResources ==
    /\ call.name = "parseResources"
    /\ ~call.done
    /\ call' = [call EXCEPT !.done = TRUE, !.items = parseResources(call.arg.output)]
    /\ UNCHANGED <<impl, m, prog, quitCmd, pc, wait, sh, late, ev>>

NextAdapters ==
    \/ CallFetchItems
    \/ CallParseResources

SpecAdapters == InitAdapters /\ [][NextAdapters]_vars

\* ================================================================== claims
\* e is an error made with %w around the error inner
Wraps(e, inner) ==
    /\ inner # Nil
    /\ Len(e) > Len(inner)
    /\ SubSeq(e, Len(e) - Len(inner) + 1, Len(e)) = inner

\* the text part occurs in the text e
Mentions(e, part) ==
    \E i \in 0..(Len(e) - Len(part)) : SubSeq(e, i + 1, i + Len(part)) = part

\* the status query of this turn succeeded and its output has the failed-phase
\* marker and not the completed-phase marker
FailedAnswer ==
    /\ wait.last.err = Nil
    /\ Contains(wait.last.output, FailedMarker)
    /\ ~Contains(wait.last.output, CompletedMarker)

\* C1: whenever a status query succeeds with the failed-phase marker (and not
\* the completed-phase marker) in its output, waitForCompletion has returned a
\* non-nil error that names the operation kind and the operation name, and the
\* loop is over: it neither sleeps nor queries again.
C1_FailedPhaseReturnsError ==
    FailedAnswer =>
        /\ wait.returned
        /\ pc = "events"
        /\ wait.result # Nil
        /\ Mentions(wait.result, wait.operation)
        /\ Mentions(wait.result, wait.name)

\* C2: whenever a status query itself returns an error, waitForCompletion has
\* returned that very error: it neither sleeps nor queries again, and reports
\* neither success nor operation-failed.
C2_QueryErrorReturned ==
    wait.last.err = ExitError =>
        /\ wait.returned
        /\ pc = "events"
        /\ wait.result = wait.last.err

\* C3: when the first k status queries of a call succeed with a status that has
\* neither marker and query k+1 succeeds with the completed-phase marker, the
\* call returns nil at that query, after k+1 queries and k sleeps; the k earlier
\* answers do not end it, and there is exactly one sleep between two queries.
C3_InProgressThenCompleted ==
    /\ (wait.quiet /\ wait.last.err = Nil /\ Contains(wait.last.output, CompletedMarker))
         => /\ wait.returned
            /\ wait.result = Nil
            /\ pc = "events"
            /\ wait.sleeps = wait.queries - 1
    /\ (wait.quiet /\ NonTerminal(wait.last))
         => /\ ~wait.returned
            /\ pc = "sleep"
    /\ pc = "sleep" => wait.sleeps = wait.queries - 1
    /\ pc = "query" => wait.sleeps = wait.queries

\* two in-progress answers, then a completed one: three queries, two sleeps
C3_Witness ==
    /\ wait.quiet
    /\ wait.last = ShellResult(<<CompletedMarker>>, Nil)
    /\ wait.queries = 3
    /\ wait.sleeps = 2
    /\ wait.returned
    /\ wait.result = Nil

\* the message handled last ran the Execute step: enter in stepExecute, and in
\* the debug revision enter in stepBackupName too
ExecEv ==
    /\ ev.kind = "enter"
    /\ ev.at = "stepExecute" \/ (impl = "debug" /\ ev.at = "stepBackupName")

C5_NameConfirmDispatches ==
    /\ (ev.kind = "enter" /\ ev.at = "stepBackupName")
         => /\ m.backupName = m.backupNameInput
            /\ m.step = "stepExecute"
            /\ ev.ran >= 1
            /\ sh.dispatches > 0
    /\ (prog = "quit" /\ m.step = "stepExecute") => sh.dispatches > 0

\* the literal chunks of the dispatch commands
DispatchLiterals ==
    {"velero backup create ", " --include-namespaces ", " --kubecontext ",
     "velero restore create --from-backup "}

\* the parameters of a dispatch command: what follows each literal chunk
RECURSIVE Params(_)
Params(cmd) ==
    IF cmd = <<>> THEN <<>>
    ELSE LET rest == Tail(cmd)
             lits == {k \in DOMAIN rest : rest[k] \in DispatchLiterals}
             n == IF lits = {} THEN Len(rest)
                  ELSE (CHOOSE k \in lits : \A j \in lits : k <= j) - 1
         IN <<SubSeq(rest, 1, n)>> \o Params(SubSeq(rest, n + 1, Len(rest)))

\* C6: the create-backup command that was dispatched carries exactly three
\* parameters: the entered name, the titles of the selected namespaces joined
\* by commas in selection order, and the title of the chosen context.
C6_BackupDispatchParameters ==
    (sh.dispatches > 0 /\ m.selectedOp.title = <<"Backup">>)
        => /\ Head(sh.dispatch) = "velero backup create "
           /\ Params(sh.dispatch) =
                  <<m.backupName, Join(Titles(m.selectedNS), ","), m.selectedCtx.title>>

\* C7: waitForCompletion is called with the kind of the chosen operation and
\* with the entered name for Backup, the chosen backup's title for Restore.
C7_PollTarget ==
    wait.calls > 0
        => IF m.selectedOp.title = <<"Backup">>
           THEN wait.operation = <<"backup">> /\ wait.name = m.backupName
           ELSE wait.operation = <<"restore">> /\ wait.name = m.selectedBackup.title

\* C8: enter in stepNamespace or stepResource with an empty selection changes
\* nothing of the model but m.err, which it sets, and returns no tea.Quit; with
\* a selection it moves to the next step.
C8_EmptyConfirmRejected ==
    [][(ev'.kind = "enter" /\ pc = "events" /\ m.step \in {"stepNamespace", "stepResource"})
         => IF (IF m.step = "stepNamespace" THEN m.selectedNS ELSE m.selectedRes) = <<>>
            THEN /\ m'.err # Nil
                 /\ m' = [m EXCEPT !.err = m'.err]
                 /\ quitCmd' = quitCmd
                 /\ prog' = prog
                 /\ sh' = sh
            ELSE /\ m'.step = IF m.step = "stepNamespace" /\ impl # "debug"
                              THEN "stepResourceDecision" ELSE "stepBackupName"
                 /\ m' = [m EXCEPT !.step = m'.step]]_vars

\* enter in stepNamespace with nothing selected: still there, error shown, no quit
C8_Witness ==
    /\ ev.kind = "enter"
    /\ ev.at = "stepNamespace"
    /\ m.step = "stepNamespace"
    /\ Len(m.namespaceList.items) > 0
    /\ m.selectedNS = <<>>
    /\ m.err = <<"no namespace selected">>
    /\ ~quitCmd

\* the steps whose enter fetches the items of the next step
FetchSteps == {"stepOperation", "stepBackupSelection", "stepContext", "stepResourceDecision"}

\* C9: when the fetch that an enter runs returns an error, m.err wraps that
\* error and tea.Quit is returned; the handler has run the one command only and
\* the step is not the step that was confirmed.
C9_FailedFetchFatal ==
    (ev.kind = "enter" /\ ev.at \in FetchSteps /\ ev.err # Nil)
        => /\ Wraps(m.err, ev.err)
           /\ quitCmd
           /\ pc = "events"
           /\ ev.ran = 1
           /\ m.step # ev.at

\* the namespace listing failed on the confirm of the context
C9_Witness ==
    /\ ev.kind = "enter"
    /\ ev.at = "stepContext"
    /\ ev.err = ExitError
    /\ m.step = "stepNamespace"
    /\ m.selectedCtx.title = <<"p">>
    /\ quitCmd

\* C10: whenever the event loop takes a key message a quit key can be handled,
\* whatever the step; handling it returns tea.Quit, runs no command and changes
\* nothing of the model.
C10_QuitEverywhere ==
    /\ [](KeyMsg => ENABLED QuitKey)
    /\ [][ev'.kind = "quitkey"
            => /\ quitCmd'
               /\ m' = m
               /\ sh' = sh
               /\ ev'.ran = 0
               /\ UNCHANGED <<call, impl, prog, pc, wait>>]_vars

\* a quit key in the name step, two namespaces selected
C10_Witness ==
    /\ ev.kind = "quitkey"
    /\ m.step = "stepBackupName"
    /\ Len(m.selectedNS) = 2
    /\ quitCmd
    /\ prog = "running"

\* the edges of the step graph: from a step, with the operation chosen, to a step
StepEdges ==
    {<<"stepOperation", "Backup", "stepContext">>,
     <<"stepOperation", "Restore", "stepBackupSelection">>,
     <<"stepBackupSelection", "Restore", "stepContext">>}
    \cup {<<e[1], op, e[2]>> :
            e \in {<<"stepContext", "stepNamespace">>,
                   <<"stepNamespace", "stepResourceDecision">>,
                   <<"stepNamespace", "stepBackupName">>,
                   <<"stepResourceDecision", "stepResource">>,
                   <<"stepResourceDecision", "stepBackupName">>,
                   <<"stepResource", "stepBackupName">>,
                   <<"stepBackupName", "stepExecute">>},
            op \in {"Backup", "Restore"}}

\* C11: the session starts in stepOperation; m.step changes only along the
\* edges of the step graph, the edge out of stepOperation being the one of the
\* operation chosen (stepBackupSelection for Restore and for Restore only), and
\* once stepOperation is left the chosen operation stays. The graph has no
\* cycle, so no step is entered again after it was left. The backups are
\* listed, and one of them is chosen before stepContext, for Restore only.
C11_StepGraph ==
    /\ [][m'.step # m.step
            => /\ Len(m'.selectedOp.title) = 1
               /\ <<m.step, m'.selectedOp.title[1], m'.step>> \in StepEdges]_vars
    /\ [][m.step # "stepOperation" => m'.selectedOp = m.selectedOp]_vars
    /\ [](m.step = "stepBackupSelection" => m.selectedOp.title = <<"Restore">>)
    /\ [](m.selectedOp.title # <<"Restore">> => m.backupList.items = <<>>)
    /\ []((m.selectedOp.title = <<"Restore">>
             /\ m.step \notin {"stepOperation", "stepBackupSelection"})
            => /\ m.backupList.items # <<>>
               /\ m.selectedBackup \in {m.backupList.items[i] :
                                            i \in DOMAIN m.backupList.items})

\* a restore that went through every step, the resource steps too
C11_Witness ==
    /\ m.step = "stepExecute"
    /\ m.selectedOp.title = <<"Restore">>
    /\ m.selectedBackup.title = <<"k">>
    /\ m.selectedCtx.title = <<"p">>
    /\ m.selectedNS # <<>>
    /\ m.selectedRes # <<>>

\* the titles of a sequence of items are pairwise distinct
DistinctTitles(items) ==
    \A i, j \in DOMAIN items : items[i].title = items[j].title => i = j

\* a sequence of items has an item of this title
HasTitle(items, t) == \E i \in DOMAIN items : items[i].title = t

\* every sequence of at most MaxItems items, repeated titles included
SelectionSets ==
    UNION {[1..n -> {Item(<<t>>, <<>>) : t \in ToggleTitles}] : n \in 0..MaxItems}

\* C12: with the cursor on an item, for any selection that has no item of that
\* item's title (the empty one, the one of the session, any other), two calls of
\* toggleSelection give the selection back, same items in the same order.
C12_TogglePair ==
    HasSelected(m.namespaceList)
        => \A selected \in SelectionSets \cup {m.selectedNS} :
             ~HasTitle(selected, SelectedItem(m.namespaceList).title)
                 => toggleSelection(m.namespaceList,
                                    toggleSelection(m.namespaceList, selected)) = selected

\* the operator pressed space twice on b with a selected: a alone is selected
C12_Witness ==
    /\ ev.kind = "space"
    /\ Titles(m.namespaceList.items) = <<<<"a">>, <<"b">>>>
    /\ m.namespaceList.index = 1
    /\ Titles(m.selectedNS) = <<<<"a">>>>

\* C13: a space on an item whose title is not selected appends the item, so n
\* items of distinct titles are selected in the order of their toggles; a space
\* on an item whose title is selected removes that one item and leaves the
\* n-1 others in the order they had.
C13_ToggleRemovalKeepsOrder ==
    [][(ev'.kind = "space" /\ m.step = "stepNamespace" /\ HasSelected(m.namespaceList)
          /\ DistinctTitles(m.selectedNS))
         => LET item == SelectedItem(m.namespaceList)
                Other(x) == x.title # item.title
            IN IF HasTitle(m.selectedNS, item.title)
               THEN /\ m'.selectedNS = SelectSeq(m.selectedNS, Other)
                    /\ Len(m'.selectedNS) = Len(m.selectedNS) - 1
               ELSE m'.selectedNS = Append(m.selectedNS, item)]_vars

\* a, b, c were selected in that order and the space on b took b out
C13_Witness ==
    /\ ev.kind = "space"
    /\ Titles(m.namespaceList.items) = <<<<"c">>, <<"b">>, <<"a">>>>
    /\ m.namespaceList.index = 1
    /\ Titles(m.selectedNS) = <<<<"a">>, <<"c">>>>

\* C14: neither m.selectedNS nor m.selectedRes ever holds two items of the
\* same title, lists with repeated titles included.
C14_SelectionDuplicateFree ==
    /\ DistinctTitles(m.selectedNS)
    /\ DistinctTitles(m.selectedRes)

\* the namespace list is a, a and the last space was pressed on the second a:
\* one a is selected, not two
C14_Witness ==
    /\ ev.kind = "space"
    /\ Titles(m.namespaceList.items) = <<<<"a">>, <<"a">>>>
    /\ m.namespaceList.index = 1
    /\ Len(m.selectedNS) = 1
    /\ m.selectedNS[1].title = <<"a">>

\* the token at the start of a line: what stands before its first space
LineToken(line) ==
    LET spaces == {k \in DOMAIN line : line[k] = " "}
    IN IF spaces = {} THEN line
       ELSE SubSeq(line, 1, (CHOOSE k \in spaces : \A j \in spaces : k <= j) - 1)

\* a whitelisted resource type, a slash and one character of a name at least
Whitelisted(token) ==
    /\ Len(token) >= 3
    /\ token[1] \in ResourcePrefixes
    /\ token[2] = "/"

\* the first of the lines that starts with the token
FirstSeen(lines, token) ==
    CHOOSE k \in DOMAIN lines :
        /\ LineToken(lines[k]) = token
        /\ \A j \in 1..(k - 1) : LineToken(lines[j]) # token

\* C15: parseResources returns one item, with an empty description, for each
\* distinct whitelisted type/name token that starts a line of the output, the
\* items standing in the order in which their tokens are first seen and no
\* token twice; a line that starts with no such token gives no item.
C15_PatternAdapter ==
    (call.done /\ call.name = "parseResources")
        => LET lines == SplitLines(call.arg.output)
               items == call.items
           IN /\ DistinctTitles(items)
              /\ {items[i].title : i \in DOMAIN items}
                     = {LineToken(lines[k]) :
                          k \in {j \in DOMAIN lines : Whitelisted(LineToken(lines[j]))}}
              /\ \A i, j \in DOMAIN items :
                     i < j => FirstSeen(lines, items[i].title)
                                < FirstSeen(lines, items[j].title)
              /\ \A i \in DOMAIN items : items[i].description = <<>>

\* a pod row, a service row and a line that is no resource row: two items
C15_Witness ==
    /\ call.done
    /\ call.name = "parseResources"
    /\ call.arg.output = <<"pod", "/", "f", " ", "R", "\n",
                           "service", "/", "b", " ", "C", "\n", "a", "\n">>
    /\ call.items = <<Item(<<"pod", "/", "f">>, <<>>), Item(<<"service", "/", "b">>, <<>>)>>

\* the lines of an output whose lines all end with a newline
OutputLines(output) ==
    LET parts == SplitLines(output) IN SubSeq(parts, 1, Len(parts) - 1)

\* n >= 1 lines, none empty, each ended by a newline
NonEmptyLines(output) ==
    /\ output # <<>>
    /\ output[Len(output)] = "\n"
    /\ \A i \in DOMAIN OutputLines(output) : OutputLines(output)[i] # <<>>

\* what the claim says fetchItems returns for the result r of the command
LinesAsItems(r) ==
    IF r.err # Nil
    THEN call.err = r.err /\ call.items = <<>>
    ELSE /\ call.err = Nil
         /\ Titles(call.items) = OutputLines(r.output)
         /\ \A i \in DOMAIN call.items : call.items[i].description = <<>>

\* C16 as stated: when the command fails fetchItems returns its error and no
\* items; when it succeeds with n >= 1 non-empty lines, each ended by a
\* newline, fetchItems returns n items, their titles those lines in order and
\* their descriptions empty.
C16_LineAdapter ==
    (call.done /\ call.name = "fetchItems"
       /\ (call.arg.err = Nil => NonEmptyLines(call.arg.output)))
        => LinesAsItems(call.arg)

\* C16 amended: the same for an output that neither starts nor, before its
\* last newline, ends with white space; fetchItems trims the whole output
\* before it splits it, so white space at those two places is not in a title.
C16_LineAdapterTrimmed ==
    (call.done /\ call.name = "fetchItems"
       /\ (call.arg.err = Nil
             => /\ NonEmptyLines(call.arg.output)
                /\ ~IsSpace(Head(call.arg.output))
                /\ ~IsSpace(call.arg.output[Len(call.arg.output) - 1])))
        => LinesAsItems(call.arg)

\* three lines, three items
C16_Witness ==
    /\ call.done
    /\ call.name = "fetchItems"
    /\ call.arg = ShellResult(<<"a", "\n", "pod", "/", "f", " ", "R", "\n",
                                "service", "/", "b", " ", "C", "\n">>, Nil)
    /\ Titles(call.items) = <<<<"a">>, <<"pod", "/", "f", " ", "R">>,
                               <<"service", "/", "b", " ", "C">>>>

\* C17: in a session the dispatch command runs once at most and
\* waitForCompletion is called once at most, whatever keys are handled between
\* the return of tea.Quit and the QuitMsg.
C17_NoDuplicateDispatch ==
    /\ sh.dispatches <= 1
    /\ wait.calls <= 1

\* the status query of this turn returned an error or a terminal marker
TerminalAnswer ==
    \/ wait.last.err # Nil /\ wait.last # NoResult
    \/ Contains(wait.last.output, CompletedMarker)
    \/ Contains(wait.last.output, FailedMarker)

\* C18: a status query that succeeds without a terminal marker never ends
\* waitForCompletion, however many came before it: the loop sleeps, and the
\* sleep leads to the next query, the call still running. The call returns
\* only at a query that failed or whose output has a terminal marker. (The
\* model asks MaxPolls queries per call; the loop has no count of its own.)
C18_NoMaximumRetry ==
    /\ [](NonTerminal(wait.last)
            => /\ ~wait.returned
               /\ pc = "sleep"
               /\ ENABLED PollSleep)
    /\ [][pc = "sleep"
            => /\ pc' = "query"
               /\ ~wait'.returned
               /\ wait'.queries = wait.queries
               /\ wait'.sleeps = wait.sleeps + 1]_vars
    /\ []((pc = "query" /\ wait.queries < MaxPolls)
            => ENABLED (PollQuery /\ pc' = "sleep"))
    /\ [](wait.returned => TerminalAnswer)
    /\ [][(~wait.returned /\ wait'.returned) => (pc = "query" /\ wait'.queries = wait.queries + 1)]_vars

\* MaxPolls answers without a terminal marker, and the loop sleeps once more
C18_Witness ==
    /\ wait.queries = MaxPolls
    /\ wait.quiet
    /\ NonTerminal(wait.last)
    /\ pc = "sleep"
    /\ wait.sleeps = MaxPolls - 1
    /\ ~wait.returned

\* the handling of some key message or of the QuitMsg
AnyMessage ==
    \/ EnterOperation \/ EnterBackupSelection \/ EnterContext \/ EnterNamespace
    \/ EnterResourceDecision \/ EnterResource \/ EnterBackupName \/ EnterExecute
    \/ QuitKey \/ SpaceKey \/ CursorKey \/ TypeKey \/ DeliverQuit

\* C19: while waitForCompletion runs no message is handled, a quit key and the
\* QuitMsg included: the message handled last stays the confirm that called
\* it, the program keeps running, and the model and the pending tea.Quit
\* change only when the call returns. A session that called waitForCompletion
\* ends only after the call returned.
C19_NoCancelMidPoll ==
    /\ [](pc # "events" => ~ENABLED AnyMessage)
    /\ [][pc # "events"
            => /\ prog' = prog
               /\ late' = late
               /\ ev'.kind = ev.kind /\ ev'.at = ev.at
               /\ (m' # m \/ quitCmd' # quitCmd) => (wait'.returned /\ pc' = "events")]_vars
    /\ []((prog = "quit" /\ wait.calls > 0) => (wait.returned /\ pc = "events"))

\* the poller sleeps after its second query; the session is where the confirm left it
C19_Witness ==
    /\ pc = "sleep"
    /\ wait.queries = 2
    /\ prog = "running"
    /\ ~quitCmd
    /\ ev.kind = "enter"
    /\ m.step = "stepExecute"

\* enter in a multi-select step with nothing selected
EmptyConfirm ==
    /\ ev'.kind = "enter"
    /\ \/ m.step = "stepNamespace" /\ m.selectedNS = <<>>
       \/ m.step = "stepResource" /\ m.selectedRes = <<>>

\* the command of the handler that ran last failed, or the poller it called
\* returned an error
FatalError ==
    \/ ev.err # Nil
    \/ pc = "events" /\ wait.returned /\ wait.result # Nil

\* C20, first half: a step that sets m.err returns tea.Quit, unless it is the
\* confirm of an empty selection, which returns none and stays in its step.
C20_ErrorsReturnQuit ==
    [][(m'.err # m.err /\ m'.err # Nil)
         => IF EmptyConfirm
            THEN quitCmd' = quitCmd /\ m'.step = m.step
            ELSE quitCmd' /\ pc' = "events"]_vars

\* C20: a step that sets m.err returns tea.Quit, unless it is the confirm of
\* an empty selection; and after a fetch, a decode, a dispatch or the poller
\* failed the session runs no command any more.
C20_OneNonFatalErrorPath ==
    /\ C20_ErrorsReturnQuit
    /\ [][FatalError => (sh' = sh /\ wait' = wait)]_vars

\* the message handled last was the confirm of Restore in stepOperation
RestoreConfirmed ==
    /\ ev.kind = "enter"
    /\ ev.at = "stepOperation"
    /\ m.selectedOp.title = <<"Restore">>

\* C21: the confirm of Restore runs the structured backup listing and the
\* backup list holds what the decoding of some output of that command gives,
\* one item per entry, its title the entry's name, in the order of the
\* entries (none for a listing without entries); output that does not decode
\* gives the decode error, which is not the error of a failed command, in
\* m.err, and tea.Quit.
C21_RestoreStructuredAdapter ==
    RestoreConfirmed
        => /\ sh.last = BackupsJsonCmd
           /\ \E r \in Results(BackupJsonOutputs) :
                LET d == JsonUnmarshal(r.output)
                IN \/ /\ r.err # Nil
                      /\ ev.err = r.err
                      /\ Wraps(m.err, r.err)
                      /\ quitCmd
                   \/ /\ r.err = Nil /\ ~d.ok
                      /\ ev.err = JsonError
                      /\ ev.err # ExitError
                      /\ Wraps(m.err, JsonError)
                      /\ quitCmd
                   \/ /\ r.err = Nil /\ d.ok
                      /\ ev.err = Nil
                      /\ Titles(m.backupList.items) = d.names
                      /\ m.step = "stepBackupSelection"

\* the titles of the items, one space between two of them
RECURSIVE SpaceSeparated(_)
SpaceSeparated(items) ==
    IF items = <<>> THEN <<>>
    ELSE IF Len(items) = 1 THEN items[1].title
    ELSE SpaceSeparated(SubSeq(items, 1, Len(items) - 1))
             \o <<" ">> \o items[Len(items)].title

\* C22: enter in stepResourceDecision on "No" moves to stepBackupName and runs
\* no command; on "Yes" it moves to stepResource and runs one command, the
\* resource listing, whose namespace argument is the titles of m.selectedNS in
\* the order of selection with one space between two of them.
C22_ResourceDecision ==
    [][(ev'.kind = "enter" /\ m.step = "stepResourceDecision" /\ prog' = "running")
         => IF SelectedItem(m.resourceDecisionList).title = <<"No">>
            THEN /\ m'.step = "stepBackupName"
                 /\ sh' = sh
                 /\ ev'.ran = 0
                 /\ quitCmd' = quitCmd
            ELSE /\ SelectedItem(m.resourceDecisionList).title = <<"Yes">>
                 /\ m'.step = "stepResource"
                 /\ ev'.ran = 1
                 /\ sh'.last = <<"kubectl get all -n ">>
                                   \o SpaceSeparated(m.selectedNS)
                                   \o <<" --no-headers">>
                 /\ sh'.dispatches = sh.dispatches]_vars

\* "Yes" with b selected before a: the listing is asked for "b a"
C22_Witness ==
    /\ ev.kind = "enter"
    /\ ev.at = "stepResourceDecision"
    /\ m.step = "stepResource"
    /\ Titles(m.selectedNS) = <<<<"b">>, <<"a">>>>
    /\ sh.last = <<"kubectl get all -n ", "b", " ", "a", " --no-headers">>

\* the steps in which a field still has its initial value: the steps up to the
\* one that records it (single choices, the name) or before the one in which
\* it is toggled (selections)
BeforeOperation == {"stepOperation"}
BeforeBackup == {"stepOperation", "stepBackupSelection"}
BeforeContext == {"stepOperation", "stepBackupSelection", "stepContext"}
BeforeNamespaces == {"stepOperation", "stepBackupSelection", "stepContext"}
BeforeResources ==
    {"stepOperation", "stepBackupSelection", "stepContext", "stepNamespace",
     "stepResourceDecision"}
BeforeName == Steps \ {"stepExecute"}

\* C23: a field of the session has its initial value as long as its step is
\* not confirmed (m.selectedOp, m.selectedBackup, m.selectedCtx, m.backupName)
\* or not reached (m.selectedNS, m.selectedRes); m.selectedBackup has it for
\* the whole of a Backup session.
C23_UnreachedFieldsUnset ==
    /\ m.step \in BeforeOperation => m.selectedOp = NoItem
    /\ m.step \in BeforeBackup => m.selectedBackup = NoItem
    /\ m.step \in BeforeContext => m.selectedCtx = NoItem
    /\ m.step \in BeforeNamespaces => m.selectedNS = <<>>
    /\ m.step \in BeforeResources => m.selectedRes = <<>>
    /\ m.step \in BeforeName => m.backupName = <<>>
    /\ m.selectedOp.title = <<"Backup">> => m.selectedBackup = NoItem

\* a Backup session in the name step, resources chosen, a character typed and
\* not confirmed: no name yet, no backup ever
C23_Witness ==
    /\ m.step = "stepBackupName"
    /\ m.selectedOp.title = <<"Backup">>
    /\ m.selectedRes # <<>>
    /\ m.backupNameInput = <<"x">>
    /\ m.backupName = <<>>
    /\ m.selectedBackup = NoItem

\* C24: no step changes a field whose step was confirmed and left:
\* m.selectedOp after stepOperation, m.selectedBackup after
\* stepBackupSelection, m.selectedCtx after stepContext, m.backupName in
\* stepExecute; m.selectedNS changes in stepNamespace only and m.selectedRes in
\* stepResource only, whatever the key.
C24_ConfirmedFieldsFrozen ==
    [][/\ m.step \notin BeforeOperation => m'.selectedOp = m.selectedOp
       /\ m.step \notin BeforeBackup => m'.selectedBackup = m.selectedBackup
       /\ m.step \notin BeforeContext => m'.selectedCtx = m.selectedCtx
       /\ m.step # "stepNamespace" => m'.selectedNS = m.selectedNS
       /\ m.step # "stepResource" => m'.selectedRes = m.selectedRes
       /\ m.step \notin BeforeName => m'.backupName = m.backupName
       /\ ev'.kind # "space" =>
              (m'.selectedNS = m.selectedNS /\ m'.selectedRes = m.selectedRes)]_vars

\* a space in stepResource toggled a resource; the namespaces are as they were
C24_Witness ==
    /\ ev.kind = "space"
    /\ ev.at = "stepResource"
    /\ Len(m.selectedNS) = 2
    /\ m.selectedRes # <<>>

\* C25: a space in a multi-select step whose list has no item under the
\* cursor changes nothing of the model: the selection keeps its items and
\* their order, m.err and m.step stay, and no tea.Quit is returned. The same
\* holds for toggleSelection on the list of the state with its cursor put
\* before the first item or after the last.
C25_ToggleWithoutItem ==
    /\ [][(ev'.kind = "space" /\ m.step \in {"stepNamespace", "stepResource"}
            /\ ~HasSelected(m[ActiveList(m.step)]))
           => /\ m' = m
              /\ quitCmd' = quitCmd
              /\ prog' = prog]_vars
    /\ [](\A l \in {m.namespaceList, m.resourceList} :
            \A i \in {-1, Len(l.items), Len(l.items) + 1} :
              /\ toggleSelection([l EXCEPT !.index = i], m.selectedNS) = m.selectedNS
              /\ toggleSelection([l EXCEPT !.index = i], m.selectedRes) = m.selectedRes)

\* the resource listing had no resource row: a space on the empty list
C25_Witness ==
    /\ ev.kind = "space"
    /\ ev.at = "stepResource"
    /\ m.resourceList.items = <<>>
    /\ m.selectedRes = <<>>
    /\ m.step = "stepResource"
    /\ Len(m.selectedNS) = 2

\* C26: the item with the empty title, which fetchItems makes of an empty
\* output, is never the recorded context or backup and never in m.selectedNS,
\* and a dispatched command has no empty context, namespace or backup.
C26_EmptyTitleGuarded ==
    /\ m.step \notin BeforeContext => m.selectedCtx.title # <<>>
    /\ (m.selectedOp.title = <<"Restore">> /\ m.step \notin BeforeBackup)
         => m.selectedBackup.title # <<>>
    /\ \A i \in DOMAIN m.selectedNS : m.selectedNS[i].title # <<>>
    /\ sh.dispatches > 0 => \A i \in 2..Len(Params(sh.dispatch)) :
                                 Params(sh.dispatch)[i] # <<>>
    /\ (sh.dispatches > 0 /\ m.selectedOp.title = <<"Restore">>)
         => Params(sh.dispatch) # <<<<>>>>

\* the item is one of the items of the list
Member(x, l) == \E i \in DOMAIN l.items : l.items[i] = x

\* C27: enter in a single-choice step never ends the program with a panic,
\* an empty list included, and the item it records is one of the items of the
\* list of that step.
C27_SingleChoiceConfirmTotal ==
    /\ prog # "panic"
    /\ m.step \notin BeforeOperation => Member(m.selectedOp, m.operationList)
    /\ m.step \notin BeforeContext => Member(m.selectedCtx, m.contextList)
    /\ (m.selectedOp.title = <<"Restore">> /\ m.step \notin BeforeBackup)
         => Member(m.selectedBackup, m.backupList)

\* C28, the end of the session: a session that ends after its one dispatch
\* succeeded and the poller returned nil ends with m.err = nil.
C28_SuccessEndsWithoutError ==
    (prog = "quit" /\ sh.dispatches = 1 /\ wait.calls = 1
       /\ wait.returned /\ wait.result = Nil)
        => m.err = Nil

\* C28: the error of a confirm without a selection is in m.err only while the
\* session is in the step that raised it, and a session whose operation
\* completed ends with m.err = nil.
C28_LastErrorReflectsOutcome ==
    /\ m.err = <<"no namespace selected">> => m.step = "stepNamespace"
    /\ m.err = <<"no resource selected">> => m.step = "stepResource"
    /\ C28_SuccessEndsWithoutError

\* the handling of a printable key: a character, the space, or the letter
\* that the revision takes for a quit key
PrintableKey == TypeKey \/ SpaceKey \/ QuitKey

\* C29: in stepBackupName every printable key, the letter q and the space
\* included, can be handled, and is handled by appending it to the text of
\* the name input, returning no tea.Quit; enter records that text as
\* m.backupName.
C29_NameCaptureVerbatim ==
    /\ []((KeyMsg /\ ~quitCmd /\ m.step = "stepBackupName"
             /\ Len(m.backupNameInput) < MaxNameLen)
            => \A c \in NameChars \cup {" "} :
                 ENABLED (/\ PrintableKey
                          /\ m'.backupNameInput = Append(m.backupNameInput, c)
                          /\ ~quitCmd'))
    /\ [][(ev'.kind = "enter" /\ m.step = "stepBackupName")
            => m'.backupName = m.backupNameInput]_vars

\* a session of the revision that has nothing but the operation record of
\* this one: operation, context, namespaces, name, backup
OperationRecord ==
    [initialModel(impl) EXCEPT !.selectedOp = m.selectedOp,
                               !.selectedCtx = m.selectedCtx,
                               !.selectedNS = m.selectedNS,
                               !.backupName = m.backupName,
                               !.selectedBackup = m.selectedBackup]

\* a session of the revision that has nothing but Restore and the backup
RestoreRecord ==
    [initialModel(impl) EXCEPT !.selectedOp = m.selectedOp,
                               !.selectedBackup = m.selectedBackup]

\* C30: the command that a session dispatched is the command that a session
\* with the same operation, context, namespaces in the same order, name and
\* backup dispatches, whatever the answer in stepResourceDecision, the
\* selected resources and the rest of the model are; for Restore it is the
\* command of any session with the same backup.
C30_DispatchFromRecordOnly ==
    sh.dispatches > 0
        => /\ sh.dispatch = DispatchCmd(impl, OperationRecord)
           /\ m.selectedOp.title = <<"Restore">>
                => /\ sh.dispatch = DispatchCmd(impl, RestoreRecord)
                   /\ Params(sh.dispatch) = <<m.selectedBackup.title>>

\* a backup dispatched after the operator chose a resource: none in the command
C30_Witness ==
    /\ sh.dispatches = 1
    /\ m.selectedOp.title = <<"Backup">>
    /\ m.selectedRes # <<>>
    /\ Len(m.selectedNS) = 2
    /\ m.backupName = <<"x">>

====
